---- MODULE Spec2Model ----
(***************************************************************************)
(* Model of the Janus policy decision point:                               *)
(*   janus_agent/core/policy_repository.py  (PolicyRepository)             *)
(*   janus_agent/core/pdp.py                (PolicyDecisionPoint)          *)
(*                                                                         *)
(* A Python str is a sequence of one-character strings, so that            *)
(* startswith / endswith / slicing are computed on characters.  None is    *)
(* the one-element sequence <<"None">>, which is no str.  A dict is a      *)
(* function whose DOMAIN is its key set; the insertion-ordered dict of     *)
(* the repository is the sequence of its values.  An Optional[Dict] is a   *)
(* sequence of length 0 (None) or 1 (the dict).                            *)
(***************************************************************************)
EXTENDS Integers, Sequences, FiniteSets, TLC

VARIABLES
    policies,        \* PolicyRepository.policies, values in insertion order
    action_index,    \* PolicyRepository.action_index, as <<pattern, id>> pairs
    subject_index,   \* PolicyRepository.subject_index
    resource_index,  \* PolicyRepository.resource_index
    op,              \* the operation that ran last
    req,             \* arguments of the last evaluate / evaluate_all call
    ret,             \* what that call returned
    raised,          \* the exception that left the call, "" when it returned
    directory,       \* the policy files on disk, in the order glob yields them
    load             \* the locals of the running load_all_policies_from_directory

vars == <<policies, action_index, subject_index, resource_index, op, req, ret, raised,
          directory, load>>

-----------------------------------------------------------------------------
(* Bounds of the model *)

\* most policies held by the store at once
MaxPolicies == 2
\* longest pattern / value string of the pattern-matching specification
MaxLen == 2
\* the longest list of policies in a document
MaxEntries == 3

-----------------------------------------------------------------------------
(* Python values *)

\* None where a str is expected (subject, action, resource, a pattern)
None == <<"None">>
\* None where the code only tests equality or truth (an id, a level, an effect):
\* these values are kept as atoms
NoneAtom == "None"
Star == <<"*">>
NoReturn == <<"no return">>

Number(n) == [kind |-> "number", n |-> n]
Text(s) == [kind |-> "str", n |-> 0]

Get(d, k, default) == IF k \in DOMAIN d THEN d[k] ELSE default

EndsWith(s, c) == Len(s) > 0 /\ s[Len(s)] = c
StartsWith(s, prefix) ==
    /\ Len(prefix) <= Len(s)
    /\ \A i \in 1..Len(prefix) : s[i] = prefix[i]
ButLast(s) == SubSeq(s, 1, Len(s) - 1)

\* `x or "*"`: None and the empty string are falsy
OrStar(x) == IF x = None \/ x = <<>> THEN Star ELSE x

-----------------------------------------------------------------------------
(* PolicyRepository *)

\* position of the key policy_id in the dict, 0 when absent
IndexOf(ps, policy_id) ==
    IF \E i \in 1..Len(ps) : ps[i].id = policy_id
    THEN CHOOSE i \in 1..Len(ps) : ps[i].id = policy_id
    ELSE 0

\* a store that keeps the old entry of a key and adds the new one after it
DictSet_KeepsOld(ps, policy) == Append(ps, policy)

\* a dict that moves a key that is set again to the end
DictSet_MovesToEnd(ps, policy) ==
    Append(SelectSeq(ps, LAMBDA q : q.id # policy.id), policy)

\* self.policies[policy_id] = policy : a new key goes last, an old key keeps its place
DictSet(ps, policy) ==
    IF IndexOf(ps, policy.id) = 0
    THEN Append(ps, policy)
    ELSE [ps EXCEPT ![IndexOf(ps, policy.id)] = policy]

RepoList == policies
RepoSize == Len(policies)
RepoGet(policy_id) ==
    IF IndexOf(policies, policy_id) = 0 THEN NoneAtom ELSE policies[IndexOf(policies, policy_id)]

\* `if not policy_id`: None and "" are falsy
Falsy(x) == x = NoneAtom \/ x = ""

\* the repository's dict and indexes as one value
Store ==
    [policies |-> policies, action_index |-> action_index,
     subject_index |-> subject_index, resource_index |-> resource_index]
EmptyStore ==
    [policies |-> <<>>, action_index |-> {}, subject_index |-> {}, resource_index |-> {}]
SetStore(st) ==
    /\ policies' = st.policies
    /\ action_index' = st.action_index
    /\ subject_index' = st.subject_index
    /\ resource_index' = st.resource_index

\* the body of add_policy on the store st
StorePut(st, policy) ==
    IF Falsy(Get(policy, "id", NoneAtom))
    THEN st
    ELSE [policies |-> DictSet(st.policies, policy),
          action_index |-> st.action_index \cup {<<Get(policy, "action", Star), policy.id>>},
          subject_index |-> st.subject_index \cup {<<Get(policy, "subject", Star), policy.id>>},
          resource_index |-> st.resource_index \cup {<<Get(policy, "resource", Star), policy.id>>}]

add_policy(policy) ==
    /\ op' = "add_policy"
    /\ SetStore(StorePut(Store, policy))
    /\ req' = policy
    /\ ret' = NoReturn
    /\ raised' = ""
    /\ UNCHANGED <<directory, load>>

\* `if policy['id'] and policy['action']` for the action: None and "" are falsy
FalsyStr(x) == x = None \/ x = <<>>

\* the dict load_policies_from_yaml builds of the entry p of a document
PolicyOfEntry(p) ==
    [id |-> Get(p, "id", NoneAtom),
     action |-> Get(p, "action", None),
     subject |-> Get(p, "subject", Star),
     resource |-> Get(p, "resource", Star),
     effect |-> Get(p, "effect", "deny"),
     description |-> Get(p, "description", <<>>),
     level |-> Get(p, "level", "agent"),
     match |-> Get(p, "match", <<>>),
     priority |-> Get(p, "priority", 50)]

\* if policy['id'] and policy['action']
Accepted(policy) == ~Falsy(policy.id) /\ ~FalsyStr(policy.action)

\* the loop over the entries leaving at the first entry that is not accepted
RECURSIVE LoadLoop_StopsAtInvalid(_, _, _)
LoadLoop_StopsAtInvalid(st, acc, entries) ==
    IF entries = <<>> THEN [store |-> st, policies |-> acc]
    ELSE LET policy == PolicyOfEntry(Head(entries))
         IN  IF Accepted(policy)
             THEN LoadLoop_StopsAtInvalid(StorePut(st, policy), Append(acc, policy), Tail(entries))
             ELSE [store |-> st, policies |-> acc]

\* the loop of load_policies_from_yaml over data['policies']: the store and the
\* list `policies` after it
RECURSIVE LoadLoop(_, _, _)
LoadLoop(st, acc, entries) ==
    IF entries = <<>> THEN [store |-> st, policies |-> acc]
    ELSE LET policy == PolicyOfEntry(Head(entries))
         IN  IF Accepted(policy)
             THEN LoadLoop(StorePut(st, policy), Append(acc, policy), Tail(entries))
             ELSE LoadLoop(st, acc, Tail(entries))

\* `not data or 'policies' not in data`
NoPolicies(data) == DOMAIN data = {} \/ "policies" \notin DOMAIN data

\* load_policies_from_yaml on a file: open or yaml.safe_load raise on a file that
\* cannot be read or parsed
load_policies_from_yaml(file) ==
    /\ op' = "load_policies_from_yaml"
    /\ req' = file
    /\ IF ~file.readable
       THEN /\ raised' = "Exception"
            /\ ret' = NoReturn
            /\ UNCHANGED <<policies, action_index, subject_index, resource_index>>
       ELSE IF NoPolicies(file.data)
       THEN /\ raised' = ""
            /\ ret' = <<>>
            /\ UNCHANGED <<policies, action_index, subject_index, resource_index>>
       ELSE LET loaded == LoadLoop(Store, <<>>, file.data.policies)
            IN  /\ raised' = ""
                /\ ret' = loaded.policies
                /\ SetStore(loaded.store)
    /\ UNCHANGED <<directory, load>>

\* no load is running
Idle == [pc |-> "idle"]

\* `if ".disabled" not in str(yaml_file)`, and the try around the load of the file
Loadable(file) == ~file.disabled /\ file.readable

\* the store after load_all_policies_from_directory has gone through the files
RECURSIVE LoadAllStore(_, _)
LoadAllStore(st, files) ==
    IF files = <<>> THEN st
    ELSE LET file == Head(files)
         IN  IF Loadable(file) /\ ~NoPolicies(file.data)
             THEN LoadAllStore(LoadLoop(st, <<>>, file.data.policies).store, Tail(files))
             ELSE LoadAllStore(st, Tail(files))

\* load_all_policies_from_directory, as the steps another thread can run between.
\* yaml_files = list(policy_path.glob("**/*.yaml")); `start` keeps the listing of
\* the store at the call
load_begin ==
    /\ load = Idle
    /\ load' = [pc |-> "file", files |-> directory, entries |-> <<>>, policies |-> <<>>,
                count |-> 0, start |-> RepoList]
    /\ op' = "load_begin"
    /\ req' = NoReturn
    /\ ret' = NoReturn
    /\ raised' = ""
    /\ UNCHANGED <<policies, action_index, subject_index, resource_index, directory>>

\* the next file: skipped when disabled or when reading it raises, else opened
\* and parsed
load_file ==
    /\ load.pc = "file"
    /\ load.files # <<>>
    /\ LET file == Head(load.files)
       IN  load' = IF Loadable(file) /\ ~NoPolicies(file.data)
                   THEN [load EXCEPT !.pc = "entry", !.files = Tail(load.files),
                                     !.entries = file.data.policies, !.policies = <<>>]
                   ELSE [load EXCEPT !.files = Tail(load.files)]
    /\ op' = "load_file"
    /\ req' = NoReturn
    /\ ret' = NoReturn
    /\ raised' = ""
    /\ UNCHANGED <<policies, action_index, subject_index, resource_index, directory>>

\* one round of the loop of load_policies_from_yaml, or its return into
\* `count += len(policies)`
load_entry ==
    /\ load.pc = "entry"
    /\ IF load.entries = <<>>
       THEN /\ load' = [load EXCEPT !.pc = "file", !.count = load.count + Len(load.policies)]
            /\ UNCHANGED <<policies, action_index, subject_index, resource_index>>
       ELSE LET one == LoadLoop(Store, load.policies, <<Head(load.entries)>>)
            IN  /\ load' = [load EXCEPT !.entries = Tail(load.entries),
                                         !.policies = one.policies]
                /\ SetStore(one.store)
    /\ op' = "load_entry"
    /\ req' = NoReturn
    /\ ret' = NoReturn
    /\ raised' = ""
    /\ UNCHANGED directory

\* return count
load_return ==
    /\ load.pc = "file"
    /\ load.files = <<>>
    /\ load' = Idle
    /\ op' = "load_all_policies_from_directory"
    /\ req' = [start |-> load.start]
    /\ ret' = load.count
    /\ raised' = ""
    /\ UNCHANGED <<policies, action_index, subject_index, resource_index, directory>>

\* return list(self.policies.values())
list ==
    /\ op' = "list"
    /\ req' = NoReturn
    /\ ret' = RepoList
    /\ raised' = ""
    /\ UNCHANGED <<policies, action_index, subject_index, resource_index, directory, load>>

\* return self.policies.get(policy_id) : <<>> is None, <<p>> the policy p
get(policy_id) ==
    /\ op' = "get"
    /\ req' = [policy_id |-> policy_id]
    /\ ret' = IF IndexOf(policies, policy_id) = 0 THEN <<>> ELSE <<RepoGet(policy_id)>>
    /\ raised' = ""
    /\ UNCHANGED <<policies, action_index, subject_index, resource_index, directory, load>>

\* return len(self.policies)
size ==
    /\ op' = "size"
    /\ req' = NoReturn
    /\ ret' = RepoSize
    /\ raised' = ""
    /\ UNCHANGED <<policies, action_index, subject_index, resource_index, directory, load>>

-----------------------------------------------------------------------------
(* PolicyDecisionPoint: matching *)

Lower(s) == [i \in 1..Len(s) |-> IF s[i] = "A" THEN "a" ELSE s[i]]

\* _matches_pattern comparing case-insensitively
MatchesPattern_CaseFolding(pattern, value) ==
    IF pattern = Star THEN "True"
    ELSE IF value = None
    THEN (IF EndsWith(pattern, "*") THEN "AttributeError" ELSE "False")
    ELSE IF Lower(pattern) = Lower(value) THEN "True"
    ELSE IF EndsWith(pattern, "*")
         THEN IF StartsWith(Lower(value), Lower(ButLast(pattern))) THEN "True" ELSE "False"
         ELSE "False"

\* _matches_pattern: "True", "False", or the exception it ends in
MatchesPattern(pattern, value) ==
    IF pattern = Star THEN "True"
    ELSE IF pattern = value THEN "True"
    ELSE IF EndsWith(pattern, "*")
         THEN IF value = None THEN "AttributeError"
              ELSE IF StartsWith(value, ButLast(pattern)) THEN "True" ELSE "False"
         ELSE "False"

\* the amount_max comparison with >= for >
AmountAboveMax_Exclusive(context, bound) ==
    IF "amount" \notin DOMAIN context THEN "True"
    ELSE IF context["amount"].kind # "number" THEN "TypeError"
    ELSE IF context["amount"].n >= bound THEN "True" ELSE "False"

\* the amount_max comparison with a missing amount read as 0
AmountAboveMax_DefaultZero(context, bound) ==
    IF "amount" \notin DOMAIN context THEN (IF 0 > bound THEN "True" ELSE "False")
    ELSE IF context["amount"].kind # "number" THEN "TypeError"
    ELSE IF context["amount"].n > bound THEN "True" ELSE "False"

\* context.get("amount", float("inf")) > match["amount_max"]
AmountAboveMax(context, bound) ==
    IF "amount" \notin DOMAIN context THEN "True"
    ELSE IF context["amount"].kind # "number" THEN "TypeError"
    ELSE IF context["amount"].n > bound THEN "True" ELSE "False"

\* the amount_min comparison with <= for <
AmountBelowMin_Exclusive(context, bound) ==
    IF "amount" \notin DOMAIN context THEN (IF 0 <= bound THEN "True" ELSE "False")
    ELSE IF context["amount"].kind # "number" THEN "TypeError"
    ELSE IF context["amount"].n <= bound THEN "True" ELSE "False"

\* context.get("amount", 0) < match["amount_min"]
AmountBelowMin(context, bound) ==
    IF "amount" \notin DOMAIN context THEN (IF 0 < bound THEN "True" ELSE "False")
    ELSE IF context["amount"].kind # "number" THEN "TypeError"
    ELSE IF context["amount"].n < bound THEN "True" ELSE "False"

IsError(x) == x \in {"AttributeError", "TypeError"}

\* the amount_min test of _matches
MatchesAmountMin(match, context) ==
    IF "amount_min" \in DOMAIN match
    THEN LET c == AmountBelowMin(context, match["amount_min"])
         IN  IF c = "True" THEN "False" ELSE IF c = "False" THEN "True" ELSE c
    ELSE "True"

\* the amount_max test of _matches, then the amount_min test
MatchesAmount(match, context) ==
    IF "amount_max" \in DOMAIN match
    THEN LET c == AmountAboveMax(context, match["amount_max"])
         IN  IF c = "True" THEN "False"
             ELSE IF c = "False" THEN MatchesAmountMin(match, context)
             ELSE c
    ELSE MatchesAmountMin(match, context)

\* _matches: "True", "False", or the exception it ends in
Matches(policy, context) ==
    LET a == MatchesPattern(Get(policy, "action", Star), Get(context, "action", <<>>))
        s == MatchesPattern(Get(policy, "subject", Star), Get(context, "subject", <<>>))
        r == MatchesPattern(Get(policy, "resource", Star), Get(context, "resource", Star))
    IN  IF a # "True" THEN a
        ELSE IF s # "True" THEN s
        ELSE IF r # "True" THEN r
        ELSE MatchesAmount(Get(policy, "match", <<>>), context)

\* _result_for_single_policy falling through to allow
ResultForSinglePolicy_FallThroughAllow(policy, matches) ==
    IF ~matches THEN "not_applicable"
    ELSE LET effect == Get(policy, "effect", NoneAtom)
         IN  IF effect = "deny" THEN "deny"
             ELSE IF effect = "require_approval" THEN "require_approval"
             ELSE "allow"

\* _result_for_single_policy
ResultForSinglePolicy(policy, matches) ==
    IF ~matches THEN "not_applicable"
    ELSE LET effect == Get(policy, "effect", NoneAtom)
         IN  IF effect = "deny" THEN "deny"
             ELSE IF effect = "allow" THEN "allow"
             ELSE IF effect = "require_approval" THEN "require_approval"
             ELSE "unknown"

-----------------------------------------------------------------------------
(* PolicyDecisionPoint: final decision *)

\* LEVEL_ORDER.get(level, 5): an unrecognized level sorts last
LevelOrder_UnknownLast(level) ==
    IF level = "enterprise" THEN 1
    ELSE IF level = "domain" THEN 2
    ELSE IF level = "agent" THEN 3
    ELSE IF level = "runtime" THEN 4
    ELSE 5

\* LEVEL_ORDER.get(level, 3)
LevelOrder(level) ==
    IF level = "enterprise" THEN 1
    ELSE IF level = "domain" THEN 2
    ELSE IF level = "agent" THEN 3
    ELSE IF level = "runtime" THEN 4
    ELSE 3

\* the sort key with the priority before the level
KeyLess_PriorityFirst(a, b) ==
    \/ a.priority < b.priority
    \/ /\ a.priority = b.priority
       /\ LevelOrder(a.level) < LevelOrder(b.level)

\* the sort key (LEVEL_ORDER.get(m["level"], 3), m["priority"]), compared as a tuple
KeyLess(a, b) ==
    \/ LevelOrder(a.level) < LevelOrder(b.level)
    \/ /\ LevelOrder(a.level) = LevelOrder(b.level)
       /\ a.priority < b.priority

\* an insertion that puts m before the entries of the same key
RECURSIVE InsertSorted_Unstable(_, _)
InsertSorted_Unstable(s, m) ==
    IF s = <<>> THEN <<m>>
    ELSE IF ~KeyLess(Head(s), m) THEN <<m>> \o s
    ELSE <<Head(s)>> \o InsertSorted_Unstable(Tail(s), m)

RECURSIVE InsertSorted(_, _)
InsertSorted(s, m) ==
    IF s = <<>> THEN <<m>>
    ELSE IF KeyLess(m, Head(s)) THEN <<m>> \o s
    ELSE <<Head(s)>> \o InsertSorted(Tail(s), m)

\* sorted(applicable, key=...): stable, ascending
RECURSIVE Sorted(_)
Sorted(s) ==
    IF s = <<>> THEN <<>>
    ELSE InsertSorted(Sorted(ButLast(s)), s[Len(s)])

\* [m for m in match_results], the filter on m["matches"] dropped
Applicable_Unfiltered(match_results) == match_results

\* [m for m in match_results if m["matches"]]
Applicable(match_results) == SelectSeq(match_results, LAMBDA m : m.matches)

\* for m in applicable_sorted: if m["result"] == result: return ...
HasResult(s, result) == \E i \in 1..Len(s) : s[i].result = result
FirstWithResult(s, result) ==
    s[CHOOSE i \in 1..Len(s) :
        /\ s[i].result = result
        /\ \A j \in 1..(i - 1) : s[j].result # result]

Decision(allow, effect, reason, matched_policy) ==
    [allow |-> allow, effect |-> effect, reason |-> reason, matched_policy |-> matched_policy]

\* the decision the entry m asserts
DecisionOf(m) ==
    IF m.result = "deny"
    THEN Decision(FALSE, "deny", <<"Deny by policy", m.policy>>, m.policy)
    ELSE IF m.result = "require_approval"
    THEN Decision(FALSE, "require_approval",
                  <<"Approval required by policy", m.policy>>, m.policy)
    ELSE IF m.result = "allow"
    THEN Decision(TRUE, "allow", <<"Allow by policy", m.policy>>, m.policy)
    ELSE Decision(FALSE, "deny", <<"Default deny">>, "default-deny")

\* _compute_final_decision with level, then priority, deciding before the effect
ComputeFinalDecision_LevelFirst(match_results) ==
    LET applicable_sorted == Sorted(Applicable(match_results))
    IN  IF applicable_sorted = <<>>
        THEN Decision(FALSE, "deny", <<"No matching policies">>, "default-deny")
        ELSE DecisionOf(applicable_sorted[1])

\* _compute_final_decision taking the first applicable entry of the listing
ComputeFinalDecision_FirstListed(match_results) ==
    LET applicable == Applicable(match_results)
    IN  IF applicable = <<>>
        THEN Decision(FALSE, "deny", <<"No matching policies">>, "default-deny")
        ELSE DecisionOf(applicable[1])

\* _compute_final_decision returning allow True with a require_approval
ComputeFinalDecision_ApprovalAllows(match_results) ==
    LET applicable_sorted == Sorted(Applicable(match_results))
    IN  IF applicable_sorted = <<>>
        THEN Decision(FALSE, "deny", <<"No matching policies">>, "default-deny")
        ELSE IF HasResult(applicable_sorted, "deny")
        THEN DecisionOf(FirstWithResult(applicable_sorted, "deny"))
        ELSE IF HasResult(applicable_sorted, "require_approval")
        THEN LET m == FirstWithResult(applicable_sorted, "require_approval")
             IN  Decision(TRUE, "require_approval",
                          <<"Approval required by policy", m.policy>>, m.policy)
        ELSE IF HasResult(applicable_sorted, "allow")
        THEN DecisionOf(FirstWithResult(applicable_sorted, "allow"))
        ELSE Decision(FALSE, "deny", <<"Default deny">>, "default-deny")

\* _compute_final_decision scanning require_approval before deny
ComputeFinalDecision_ApprovalFirst(match_results) ==
    LET applicable_sorted == Sorted(Applicable(match_results))
    IN  IF applicable_sorted = <<>>
        THEN Decision(FALSE, "deny", <<"No matching policies">>, "default-deny")
        ELSE IF HasResult(applicable_sorted, "require_approval")
        THEN DecisionOf(FirstWithResult(applicable_sorted, "require_approval"))
        ELSE IF HasResult(applicable_sorted, "deny")
        THEN DecisionOf(FirstWithResult(applicable_sorted, "deny"))
        ELSE IF HasResult(applicable_sorted, "allow")
        THEN DecisionOf(FirstWithResult(applicable_sorted, "allow"))
        ELSE Decision(FALSE, "deny", <<"Default deny">>, "default-deny")

\* _compute_final_decision scanning allow before require_approval
ComputeFinalDecision_AllowFirst(match_results) ==
    LET applicable_sorted == Sorted(Applicable(match_results))
    IN  IF applicable_sorted = <<>>
        THEN Decision(FALSE, "deny", <<"No matching policies">>, "default-deny")
        ELSE IF HasResult(applicable_sorted, "deny")
        THEN DecisionOf(FirstWithResult(applicable_sorted, "deny"))
        ELSE IF HasResult(applicable_sorted, "allow")
        THEN DecisionOf(FirstWithResult(applicable_sorted, "allow"))
        ELSE IF HasResult(applicable_sorted, "require_approval")
        THEN DecisionOf(FirstWithResult(applicable_sorted, "require_approval"))
        ELSE Decision(FALSE, "deny", <<"Default deny">>, "default-deny")

\* _compute_final_decision
ComputeFinalDecision(match_results) ==
    LET applicable == Applicable(match_results)
        applicable_sorted == Sorted(applicable)
    IN  IF applicable = <<>>
        THEN Decision(FALSE, "deny", <<"No matching policies">>, "default-deny")
        ELSE IF HasResult(applicable_sorted, "deny")
        THEN LET m == FirstWithResult(applicable_sorted, "deny")
             IN  Decision(FALSE, "deny", <<"Deny by policy", m.policy>>, m.policy)
        ELSE IF HasResult(applicable_sorted, "require_approval")
        THEN LET m == FirstWithResult(applicable_sorted, "require_approval")
             IN  Decision(FALSE, "require_approval",
                          <<"Approval required by policy", m.policy>>, m.policy)
        ELSE IF HasResult(applicable_sorted, "allow")
        THEN LET m == FirstWithResult(applicable_sorted, "allow")
             IN  Decision(TRUE, "allow", <<"Allow by policy", m.policy>>, m.policy)
        ELSE Decision(FALSE, "deny", <<"Default deny">>, "default-deny")

-----------------------------------------------------------------------------
(* PolicyDecisionPoint: public API *)

\* the context with the resource as it was passed
Context_NoDefault(subject, action, resource, attrs) ==
    LET a == IF attrs = <<>> THEN <<>> ELSE attrs[1]
        base == [subject |-> subject, action |-> action, resource |-> resource]
    IN  [k \in {"subject", "action", "resource"} \cup DOMAIN a |->
            IF k \in DOMAIN a THEN a[k] ELSE base[k]]

\* context = {"subject": .., "action": .., "resource": resource or "*", **attrs}
Context(subject, action, resource, attrs) ==
    LET a == IF attrs = <<>> THEN <<>> ELSE attrs[1]
        base == [subject |-> subject, action |-> action, resource |-> OrStar(resource)]
    IN  [k \in {"subject", "action", "resource"} \cup DOMAIN a |->
            IF k \in DOMAIN a THEN a[k] ELSE base[k]]

\* one entry of match_results
MatchResult(p, context) ==
    LET matches == Matches(p, context) = "True"
    IN  [policy |-> Get(p, "id", NoneAtom),
         level |-> Get(p, "level", "agent"),
         priority |-> Get(p, "priority", 50),
         effect |-> Get(p, "effect", NoneAtom),
         matches |-> matches,
         result |-> ResultForSinglePolicy(p, matches)]

\* the loop of evaluate_all leaving at the first policy that matches
RECURSIVE MatchResults_ShortCircuit(_, _)
MatchResults_ShortCircuit(ps, context) ==
    IF ps = <<>> THEN <<>>
    ELSE IF Matches(Head(ps), context) = "True"
    THEN <<MatchResult(Head(ps), context)>>
    ELSE <<MatchResult(Head(ps), context)>> \o MatchResults_ShortCircuit(Tail(ps), context)

\* the loop of evaluate_all over repository.list()
MatchResults(ps, context) == [i \in 1..Len(ps) |-> MatchResult(ps[i], context)]

\* the exception of the first policy whose _matches raises, "" when none does
RECURSIVE FirstError(_, _)
FirstError(ps, context) ==
    IF ps = <<>> THEN ""
    ELSE LET m == Matches(Head(ps), context)
         IN  IF IsError(m) THEN m ELSE FirstError(Tail(ps), context)

\* the value evaluate_all returns
EvaluateAllValue(ps, subject, action, resource, attrs) ==
    LET context == Context(subject, action, resource, attrs)
        match_results == MatchResults(ps, context)
    IN  [matches |-> match_results, final |-> ComputeFinalDecision(match_results)]

Request(subject, action, resource, attrs) ==
    [subject |-> subject, action |-> action, resource |-> resource, attrs |-> attrs]

\* evaluate_all answering from the result of the evaluate_all before it
evaluate_all_Memo(subject, action, resource, attrs) ==
    LET err == FirstError(RepoList, Context(subject, action, resource, attrs))
        full == EvaluateAllValue(RepoList, subject, action, resource, attrs)
    IN  /\ op' = "evaluate_all"
        /\ req' = Request(subject, action, resource, attrs)
        /\ raised' = err
        /\ ret' = IF err # "" THEN NoReturn
                  ELSE IF op = "evaluate_all" /\ raised = "" THEN ret ELSE full
        /\ UNCHANGED <<policies, action_index, subject_index, resource_index, directory, load>>

evaluate_all(subject, action, resource, attrs) ==
    LET err == FirstError(RepoList, Context(subject, action, resource, attrs))
        full == EvaluateAllValue(RepoList, subject, action, resource, attrs)
    IN  /\ op' = "evaluate_all"
        /\ req' = Request(subject, action, resource, attrs)
        /\ raised' = err
        /\ ret' = IF err = "" THEN full ELSE NoReturn
        /\ UNCHANGED <<policies, action_index, subject_index, resource_index, directory, load>>

\* evaluate not handing attrs on to evaluate_all
evaluate_DropsAttrs(subject, action, resource, attrs) ==
    LET err == FirstError(RepoList, Context(subject, action, resource, <<>>))
        full == EvaluateAllValue(RepoList, subject, action, resource, <<>>)
    IN  /\ op' = "evaluate"
        /\ req' = Request(subject, action, resource, attrs)
        /\ raised' = err
        /\ ret' = IF err = "" THEN full.final ELSE NoReturn
        /\ UNCHANGED <<policies, action_index, subject_index, resource_index, directory, load>>

\* full = self.evaluate_all(...); return full["final"]
evaluate(subject, action, resource, attrs) ==
    LET err == FirstError(RepoList, Context(subject, action, resource, attrs))
        full == EvaluateAllValue(RepoList, subject, action, resource, attrs)
    IN  /\ op' = "evaluate"
        /\ req' = Request(subject, action, resource, attrs)
        /\ raised' = err
        /\ ret' = IF err = "" THEN full.final ELSE NoReturn
        /\ UNCHANGED <<policies, action_index, subject_index, resource_index, directory, load>>

-----------------------------------------------------------------------------
(* Inputs *)

Policy(id, level, priority, action, subject, resource, effect, match) ==
    [id |-> id, level |-> level, priority |-> priority, action |-> action,
     subject |-> subject, resource |-> resource, effect |-> effect, match |-> match]

PaymentTransfer == <<"p", "t">>
DataExport == <<"d", "e">>
PaymentAny == <<"p", "*">>
FinanceAgent == <<"f", "1">>
FinanceAny == <<"f", "*">>

Levels == {"enterprise", "domain", "agent", "runtime", "team"}
\* the <<level, priority>> pairs of Spec: two priorities of the strongest level and
\* the weakest priority of the weakest level
MainRanks == {<<"enterprise", 10>>, <<"enterprise", 20>>, <<"runtime", 20>>}
Priorities == {10, 20}
Effects == {"allow", "deny", "require_approval", "audit"}
RecognizedEffects == {"allow", "deny", "require_approval"}
Matchings == {<<>>, [amount_max |-> 999]}

PolicyIds == <<"p1", "p2", "p3", "p4">>

\* ids are handed out in the order p1, p2, ...
FreshIds ==
    IF Len(policies) < MaxPolicies /\ Len(policies) < Len(PolicyIds)
    THEN {PolicyIds[Len(policies) + 1]} ELSE {}

Init ==
    /\ policies = <<>>
    /\ action_index = {}
    /\ subject_index = {}
    /\ resource_index = {}
    /\ op = "init"
    /\ req = NoReturn
    /\ ret = NoReturn
    /\ raised = ""
    /\ directory = <<>>
    /\ load = Idle

-----------------------------------------------------------------------------
(* Spec: the decision engine over a store that add_policy fills *)

AddPolicy ==
    \E id \in FreshIds, rank \in MainRanks, effect \in Effects, match \in Matchings :
        add_policy(Policy(id, rank[1], rank[2], PaymentAny, Star, Star, effect, match))

\* payment.transfer without amount, payment.transfer of 500, data.export
MainRequests ==
    {Request(FinanceAgent, PaymentTransfer, None, <<>>),
     Request(FinanceAgent, PaymentTransfer, None, <<[amount |-> Number(500)]>>),
     Request(FinanceAgent, DataExport, Star, <<>>)}

EvaluateAll ==
    \E r \in MainRequests : evaluate_all(r.subject, r.action, r.resource, r.attrs)

Evaluate ==
    \E r \in MainRequests : evaluate(r.subject, r.action, r.resource, r.attrs)

Next == AddPolicy \/ EvaluateAll \/ Evaluate

Spec == Init /\ [][Next]_vars

-----------------------------------------------------------------------------
(* What the formulas below read off the last call *)

Evaluated == op \in {"evaluate", "evaluate_all"}
Returned == Evaluated /\ raised = ""
Final == IF op = "evaluate" THEN ret ELSE ret.final
ReqContext == Context(req.subject, req.action, req.resource, req.attrs)
PolicyMatches(p) == Matches(p, ReqContext) = "True"
Matching == {i \in 1..Len(policies) : PolicyMatches(policies[i])}
MatchingWith(effect) == {i \in Matching : policies[i].effect = effect}
DefaultDeny(d) == d.allow = FALSE /\ d.effect = "deny" /\ d.matched_policy = "default-deny"

-----------------------------------------------------------------------------
(* C1 - C3, C5, C10 under Spec *)

C2_DefaultDeny ==
    (Evaluated /\ Matching = {})
        => (raised = "" /\
            Final = Decision(FALSE, "deny", <<"No matching policies">>, "default-deny"))

\* a store that holds an allow policy, none of whose policies matches
C2_Witness ==
    /\ Returned /\ Matching = {}
    /\ \E i \in 1..Len(policies) : policies[i].effect = "allow"
    /\ Final.matched_policy = "default-deny"

Without(ps, i) == SubSeq(ps, 1, i - 1) \o SubSeq(ps, i + 1, Len(ps))
Unrecognized == {i \in Matching : policies[i].effect \notin RecognizedEffects}
Core(d) == <<d.allow, d.effect, d.matched_policy>>

\* C5: an unrecognized effect is moot. A matching policy whose effect is none of
\* allow, deny, require_approval has per-policy result "unknown", is never the
\* matched_policy, and the allow / effect / matched_policy of the decision are those
\* of the same request on the store without it; allow is returned only when a policy
\* with effect allow matches; when every matching policy is unrecognized the
\* decision is allow false, deny, "default-deny".
C5_UnknownEffectMoot ==
    Evaluated =>
        /\ raised = ""
        /\ \A i \in Unrecognized :
              /\ op = "evaluate_all" => ret.matches[i].result = "unknown"
              /\ Final.matched_policy # policies[i].id
              /\ Core(Final) =
                   Core(EvaluateAllValue(Without(policies, i), req.subject, req.action,
                                         req.resource, req.attrs).final)
        /\ Final.allow => MatchingWith("allow") # {}
        /\ (Matching # {} /\ Unrecognized = Matching) => DefaultDeny(Final)

\* an unrecognized policy matches at the strongest rank beside an allow policy
C5_Witness ==
    /\ op = "evaluate_all" /\ raised = ""
    /\ \E i \in Unrecognized, j \in MatchingWith("allow") :
          policies[i].level = "enterprise" /\ policies[j].level = "runtime"
    /\ Final.effect = "allow"

\* C10: trace completeness. evaluate_all returns one Match Result per stored
\* policy, in the order of list(), so as many as size(); an entry is
\* "not_applicable" exactly when its matches flag is false, and the flag is right
\* for every policy, those after the first matching one included.
C10_TraceComplete ==
    op = "evaluate_all" =>
        /\ raised = ""
        /\ Len(ret.matches) = RepoSize
        /\ \A i \in 1..Len(RepoList) :
              /\ ret.matches[i].policy = RepoList[i].id
              /\ ret.matches[i].matches = PolicyMatches(RepoList[i])
              /\ (ret.matches[i].result = "not_applicable") <=> ~ret.matches[i].matches

\* a trace whose first entry matches and which goes on: a later entry matches too
C10_Witness ==
    /\ op = "evaluate_all" /\ raised = ""
    /\ Len(ret.matches) >= 2
    /\ ret.matches[1].matches
    /\ \E i \in 2..Len(ret.matches) : ret.matches[i].matches

\* C11: evaluate and evaluate_all agree. When the two are called one after the
\* other with the same arguments on the same store, evaluate returns (or raises)
\* what evaluate_all returns under "final" (or raises).
C11_EvaluateAgrees ==
    [][((op = "evaluate_all" /\ op' = "evaluate") \/ (op = "evaluate" /\ op' = "evaluate_all"))
         /\ req' = req /\ policies' = policies
       => /\ raised' = raised
          /\ raised = "" =>
                IF op' = "evaluate" THEN ret' = ret.final ELSE ret'.final = ret]_vars

\* evaluate returned the allow of p2, which has an amount_max, for a payment of 500
C11_Witness ==
    /\ op = "evaluate" /\ raised = "" /\ Len(policies) = 2
    /\ req.attrs # <<>>
    /\ policies[1].effect = "audit"
    /\ policies[2].effect = "allow" /\ policies[2].match # <<>>
    /\ ret.allow /\ ret.matched_policy = "p2"

StoreVars == <<policies, action_index, subject_index, resource_index>>

-----------------------------------------------------------------------------
(* SpecOrder: every level, priority and recognized effect; one request that  *)
(* every policy matches                                                      *)

OrderAddPolicy ==
    \E id \in FreshIds, level \in Levels, priority \in Priorities,
       effect \in RecognizedEffects :
        add_policy(Policy(id, level, priority, PaymentAny, Star, Star, effect, <<>>))

OrderEvaluate == evaluate(FinanceAgent, PaymentTransfer, None, <<>>)

NextOrder == OrderAddPolicy \/ OrderEvaluate

SpecOrder == Init /\ [][NextOrder]_vars

\* the rank the tie-break is stated with
LevelRank(level) ==
    CASE level = "enterprise" -> 1
      [] level = "domain" -> 2
      [] level = "agent" -> 3
      [] level = "runtime" -> 4
      [] OTHER -> 3

PairLeq(p, q) ==
    \/ LevelRank(p.level) < LevelRank(q.level)
    \/ LevelRank(p.level) = LevelRank(q.level) /\ p.priority <= q.priority

\* C4: within-class tie-break. When the decision names a policy, that policy
\* matches, has the final effect, and has the smallest (level_rank, priority) pair
\* among the matching policies of that effect; an unrecognized level ranks 3.
C4_TieBreak ==
    Evaluated =>
        /\ raised = ""
        /\ Final.matched_policy # "default-deny" =>
              \E i \in MatchingWith(Final.effect) :
                  /\ policies[i].id = Final.matched_policy
                  /\ \A j \in MatchingWith(Final.effect) : PairLeq(policies[i], policies[j])

\* a policy of unrecognized level wins over an agent-level one of the same effect
\* that is listed before it, by priority
C4_Witness ==
    /\ Returned
    /\ \E i, j \in MatchingWith(Final.effect) :
          /\ j < i
          /\ policies[i].level = "team" /\ policies[j].level = "agent"
          /\ policies[i].priority < policies[j].priority
          /\ Final.matched_policy = policies[i].id

-----------------------------------------------------------------------------
(* SpecListing: the same policies held in different orders; an id can be     *)
(* any that the store does not hold yet                                      *)

UnheldIds ==
    IF Len(policies) < MaxPolicies
    THEN {PolicyIds[i] : i \in 1..Len(PolicyIds)} \ {policies[i].id : i \in 1..Len(policies)}
    ELSE {}

ListingAddPolicy ==
    \E id \in UnheldIds, level \in {"enterprise", "agent"}, priority \in Priorities,
       effect \in RecognizedEffects :
        add_policy(Policy(id, level, priority, PaymentAny, Star, Star, effect, <<>>))

ListingRequests ==
    {Request(FinanceAgent, PaymentTransfer, None, <<>>),
     Request(FinanceAgent, DataExport, Star, <<>>)}

ListingEvaluate ==
    \E r \in ListingRequests : evaluate(r.subject, r.action, r.resource, r.attrs)

NextListing == ListingAddPolicy \/ ListingEvaluate

SpecListing == Init /\ [][NextListing]_vars

\* the held policies in the order f
Reordered(f) == [i \in 1..Len(policies) |-> policies[f[i]]]

\* C12: the order of the listing is not significant. The decision evaluate
\* returned (allow, effect, reason and matched_policy) is the one it returns for
\* the same request on every other ordering of the held policies.
C12_ListingOrderInsignificant ==
    (op = "evaluate" /\ raised = "" /\ Len(policies) >= 1) =>
        \A f \in Permutations(1..Len(policies)) :
            EvaluateAllValue(Reordered(f), req.subject, req.action, req.resource, req.attrs).final
                = ret

\* C29: the final effect does not depend on listing order. The allow and effect
\* that evaluate returned are the ones it returns for the same request on every
\* other ordering of the held policies.
C29_EffectOrderIndependent ==
    (op = "evaluate" /\ raised = "" /\ Len(policies) >= 1) =>
        \A f \in Permutations(1..Len(policies)) :
            LET other == EvaluateAllValue(Reordered(f), req.subject, req.action,
                                          req.resource, req.attrs).final
            IN  other.allow = ret.allow /\ other.effect = ret.effect

\* an allow listed before a deny of the same level and priority, both matching:
\* the decision is the deny
C29_Witness ==
    /\ op = "evaluate" /\ raised = "" /\ Len(policies) = 2
    /\ Matching = {1, 2}
    /\ policies[1].effect = "allow" /\ policies[2].effect = "deny"
    /\ policies[1].level = policies[2].level /\ policies[1].priority = policies[2].priority
    /\ ret.effect = "deny" /\ ~ret.allow

\* the matching policies of the final effect that have the smallest pair
Tied ==
    {i \in MatchingWith(Final.effect) :
        \A j \in MatchingWith(Final.effect) : ~KeyLess(policies[j], policies[i])}

\* C30: ties are broken by listing order. When two or more matching policies of
\* the winning effect share the smallest (level_rank, priority) pair,
\* matched_policy is the one of them that list() returns first.
C30_TieByListingOrder ==
    (op = "evaluate" /\ raised = "" /\ Cardinality(Tied) >= 2) =>
        \E i \in Tied :
            /\ ret.matched_policy = RepoList[i].id
            /\ \A j \in Tied : i <= j

\* p2 was added before p1 with the same effect, level and priority: p2 is named
C30_Witness ==
    /\ op = "evaluate" /\ raised = "" /\ Len(policies) = 2
    /\ Tied = {1, 2}
    /\ policies[1].id = "p2" /\ policies[2].id = "p1"
    /\ ret.matched_policy = "p2"

-----------------------------------------------------------------------------
(* SpecPattern: _matches_pattern on every pattern and value up to MaxLen,    *)
(* applied by evaluate_all to the action of the one stored policy            *)

Alphabet == {"a", "A", "*"}
Strings == UNION {[1..n -> Alphabet] : n \in 0..MaxLen}

PatternAddPolicy ==
    /\ policies = <<>>
    /\ \E pattern \in Strings :
          add_policy(Policy("p1", "agent", 50, pattern, Star, Star, "allow", <<>>))

PatternEvaluateAll ==
    \E value \in Strings : evaluate_all(FinanceAgent, value, None, <<>>)

NextPattern == PatternAddPolicy \/ PatternEvaluateAll

SpecPattern == Init /\ [][NextPattern]_vars

\* C7: pattern matching. matches_pattern(p, v) is true exactly when p is "*", or
\* p equals v, or p ends with "*" and v starts with p minus its last character;
\* characters are compared as they are and a "*" elsewhere is a literal.
C7_PatternMatching ==
    (op = "evaluate_all" /\ Len(policies) = 1) =>
        LET p == policies[1].action
            v == req.action
        IN  /\ raised = ""
            /\ ret.matches[1].matches <=>
                  \/ p = <<"*">>
                  \/ p = v
                  \/ /\ Len(p) >= 1 /\ p[Len(p)] = "*"
                     /\ Len(v) >= Len(p) - 1
                     /\ \A i \in 1..(Len(p) - 1) : v[i] = p[i]

\* the prefix pattern "a*" matches the value "aA"
C7_Witness ==
    /\ op = "evaluate_all" /\ raised = "" /\ Len(policies) = 1
    /\ policies[1].action = <<"a", "*">>
    /\ req.action = <<"a", "A">>
    /\ ret.matches[1].matches

-----------------------------------------------------------------------------
(* SpecAmount: the amount bounds of one stored policy against every amount   *)
(* next to a bound, and against no amount                                    *)

AmountBounds == {-1, 0, 1, 999, 1000, 10000}
Amounts == UNION {{b - 1, b, b + 1} : b \in AmountBounds}
AmountMatchings ==
    UNION {[keys -> AmountBounds] : keys \in SUBSET {"amount_max", "amount_min"}}
AmountAttrs ==
    {<<>>, << <<>> >>, <<[recipient |-> Text(<<"x">>)]>>}
        \cup {<<[amount |-> Number(a)]>> : a \in Amounts}

AmountAddPolicy ==
    /\ policies = <<>>
    /\ \E action \in {PaymentAny, DataExport}, match \in AmountMatchings :
          add_policy(Policy("p1", "agent", 10, action, Star, Star, "allow", match))

AmountEvaluateAll ==
    \E attrs \in AmountAttrs : evaluate_all(FinanceAgent, PaymentTransfer, None, attrs)

NextAmount == AmountAddPolicy \/ AmountEvaluateAll

SpecAmount == Init /\ [][NextAmount]_vars

PatternsMatch(p) ==
    /\ MatchesPattern(p.action, ReqContext["action"]) = "True"
    /\ MatchesPattern(p.subject, ReqContext["subject"]) = "True"
    /\ MatchesPattern(p.resource, ReqContext["resource"]) = "True"
HasAmount == "amount" \in DOMAIN ReqContext

\* C8: amount bounds are inclusive. A policy whose patterns match the request
\* matches a request of integer amount a exactly when a <= amount_max (if present)
\* and a >= amount_min (if present).
C8_AmountBoundsInclusive ==
    (op = "evaluate_all" /\ Len(policies) = 1 /\ PatternsMatch(policies[1]) /\ HasAmount) =>
        LET match == policies[1].match
            a == ReqContext["amount"].n
        IN  /\ raised = ""
            /\ ret.matches[1].matches <=>
                  /\ "amount_max" \in DOMAIN match => a <= match["amount_max"]
                  /\ "amount_min" \in DOMAIN match => a >= match["amount_min"]

\* amount_max 999 matches the amount 999
C8_Witness ==
    /\ op = "evaluate_all" /\ raised = "" /\ Len(policies) = 1
    /\ PatternsMatch(policies[1]) /\ HasAmount
    /\ DOMAIN policies[1].match = {"amount_max"}
    /\ policies[1].match["amount_max"] = 999
    /\ ReqContext["amount"].n = 999
    /\ ret.matches[1].matches

\* C9: missing amount. For a request without amount, a policy with an amount_max
\* never matches, and a policy with only an amount_min m, its patterns matching,
\* matches exactly when m <= 0.
C9_MissingAmount ==
    (op = "evaluate_all" /\ Len(policies) = 1 /\ ~HasAmount) =>
        LET match == policies[1].match
        IN  /\ raised = ""
            /\ "amount_max" \in DOMAIN match => ~ret.matches[1].matches
            /\ (DOMAIN match = {"amount_min"} /\ PatternsMatch(policies[1])) =>
                  (ret.matches[1].matches <=> match["amount_min"] <= 0)

\* no amount, patterns matching: an amount_max of 10000 alone does not match
C9_Witness ==
    /\ op = "evaluate_all" /\ raised = "" /\ Len(policies) = 1 /\ ~HasAmount
    /\ PatternsMatch(policies[1])
    /\ DOMAIN policies[1].match = {"amount_max"}
    /\ policies[1].match["amount_max"] = 10000
    /\ ~ret.matches[1].matches

-----------------------------------------------------------------------------
(* SpecRaw: requests as a front end can pass them: action or subject None,   *)
(* an amount that is no number                                               *)

RawAddPolicy ==
    \E id \in FreshIds, action \in {Star, PaymentAny, PaymentTransfer},
       subject \in {Star, FinanceAny}, effect \in {"allow", "deny"}, match \in Matchings :
        add_policy(Policy(id, "agent", 10, action, subject, Star, effect, match))

RawRequests ==
    {Request(subject, action, Star, attrs) :
        subject \in {FinanceAgent, None}, action \in {PaymentTransfer, None},
        attrs \in {<<>>, <<[amount |-> Number(500)]>>, <<[amount |-> Text(<<"a">>)]>>}}

RawEvaluateAll ==
    \E r \in RawRequests : evaluate_all(r.subject, r.action, r.resource, r.attrs)

RawEvaluate ==
    \E r \in RawRequests : evaluate(r.subject, r.action, r.resource, r.attrs)

NextRaw == RawAddPolicy \/ RawEvaluateAll \/ RawEvaluate

SpecRaw == Init /\ [][NextRaw]_vars

WellFormedDecision(d) ==
    /\ DOMAIN d = {"allow", "effect", "reason", "matched_policy"}
    /\ d.allow \in BOOLEAN
    /\ d.effect \in RecognizedEffects

\* C6: no exception leaves the engine. Every evaluate / evaluate_all call on
\* well-formed policies returns a well-formed decision, also when the action or the
\* subject is None or the amount is no number.
C6_NoExceptionLeaves ==
    Evaluated => (raised = "" /\ WellFormedDecision(Final))

-----------------------------------------------------------------------------
(* SpecStore: add_policy under ids that are held, new, empty or missing,     *)
(* read back by get, list and size                                           *)

\* one id more than the store takes, so that one is never added
StoreIds == {PolicyIds[i] : i \in 1..(MaxPolicies + 1)}
HeldIds == {policies[i].id : i \in 1..Len(policies)}

\* ids add_policy is called with: held ones, new ones while there is room, and
\* the falsy "" and None
AddableIds ==
    HeldIds \cup (IF Len(policies) < MaxPolicies THEN StoreIds ELSE {}) \cup {"", NoneAtom}

StoreAddPolicy ==
    \/ \E id \in AddableIds, effect \in {"allow", "deny"} :
          add_policy(Policy(id, "agent", 10, PaymentAny, Star, Star, effect, <<>>))
    \/ add_policy([action |-> PaymentAny, effect |-> "allow"])

StoreGet == \E id \in StoreIds : get(id)
StoreList == list
StoreSize == size

NextStore == StoreAddPolicy \/ StoreGet \/ StoreList \/ StoreSize

SpecStore == Init /\ [][NextStore]_vars

\* the held policies that list() yields under the id
HeldUnder(ps, id) == {i \in 1..Len(ps) : ps[i].id = id}
\* what get(id) has to return for the listing ps
Lookup(ps, id) ==
    IF HeldUnder(ps, id) = {} THEN <<>> ELSE <<ps[CHOOSE i \in HeldUnder(ps, id) : TRUE]>>
\* the ids of a listing, in its order
IdsOf(ps) == [i \in 1..Len(ps) |-> ps[i].id]

\* C16: the store is a map keyed by id, last write wins. add_policy of a policy
\* with an id makes that policy the one held under its id, leaves every other id
\* as it was and grows the size by one exactly when the id was not held; get
\* returns the policy held under the id, and absence without an error for an id
\* that is not held; size is the number of distinct ids held.
C16_MapLastWriteWins ==
    [][/\ op' = "add_policy" /\ ~Falsy(Get(req', "id", NoneAtom)) =>
            /\ \A id \in StoreIds :
                  Lookup(policies', id) = IF id = req'.id THEN <<req'>> ELSE Lookup(policies, id)
            /\ \A id \in StoreIds : Cardinality(HeldUnder(policies', id)) <= 1
            /\ RepoSize' = RepoSize + (IF req'.id \in HeldIds THEN 0 ELSE 1)
       /\ op' = "get" => (raised' = "" /\ ret' = Lookup(policies', req'.policy_id))
       /\ op' = "size" => ret' = Cardinality(HeldIds')]_vars

\* add_policy has just set p1, which was held before p2 was added, to a deny
\* policy: the store holds this policy under p1 and still two policies
C16_Witness ==
    /\ op = "add_policy" /\ Get(req, "id", NoneAtom) = "p1" /\ req.effect = "deny"
    /\ Len(policies) = 2
    /\ policies[1] = req /\ policies[2].id = "p2"
    /\ Lookup(policies, "p1") = <<req>>

\* C18: list() is complete and stable. add_policy under an id that is held
\* leaves the order of the ids in the listing as it is, under a new id it puts the
\* id last; list() returns every held policy exactly once, in that order, and
\* returns the same again when nothing was added in between.
C18_ListStable ==
    [][/\ op' = "add_policy" =>
            LET id == Get(req', "id", NoneAtom)
            IN  IdsOf(RepoList') = IF Falsy(id) \/ id \in HeldIds
                                   THEN IdsOf(RepoList)
                                   ELSE Append(IdsOf(RepoList), id)
       /\ op' = "list" =>
            /\ \A id \in StoreIds :
                  /\ Cardinality(HeldUnder(ret', id)) = Len(Lookup(policies', id))
                  /\ \A i \in HeldUnder(ret', id) : <<ret'[i]>> = Lookup(policies', id)
            /\ \A i \in 1..Len(ret') : ret'[i].id \in StoreIds
            /\ IdsOf(ret') = IdsOf(RepoList')
            /\ op = "list" => ret' = ret]_vars

\* list() returned p2 before p1: p2 was inserted first
C18_Witness ==
    /\ op = "list" /\ Len(ret) = 2
    /\ ret[1].id = "p2" /\ ret[2].id = "p1"
    /\ ret[1].effect = "deny" /\ ret[2].effect = "allow"

-----------------------------------------------------------------------------
(* SpecLoad: load_policies_from_yaml on documents whose entries are complete, *)
(* minimal, or lack the id or the action                                     *)

MinimalEntry == [id |-> "p1", action |-> PaymentAny]
FullEntry ==
    [id |-> "p2", action |-> PaymentTransfer, subject |-> FinanceAny, resource |-> Star,
     effect |-> "allow", description |-> <<"d">>, level |-> "enterprise",
     match |-> [amount_max |-> 999], priority |-> 10]
NoActionEntry == [id |-> "p3", effect |-> "allow"]
NoIdEntry == [action |-> PaymentAny, effect |-> "allow"]
Entries == {MinimalEntry, FullEntry, NoActionEntry, NoIdEntry}

\* the sequences of distinct elements of S of length up to n
SeqsUpTo(S, n) ==
    UNION {{es \in [1..k -> S] : \A i, j \in 1..k : es[i] = es[j] => i = j} : k \in 0..n}

File(disabled, readable, data) == [disabled |-> disabled, readable |-> readable, data |-> data]

\* an empty file, a document without the key policies, a file that does not
\* parse, and the documents of up to MaxEntries different entries
LoadFiles ==
    {File(FALSE, TRUE, <<>>), File(FALSE, TRUE, [version |-> 1]), File(FALSE, FALSE, <<>>)}
    \cup {File(FALSE, TRUE, [policies |-> es]) : es \in SeqsUpTo(Entries, MaxEntries)}

LoadPoliciesFromYaml == \E file \in LoadFiles : load_policies_from_yaml(file)

NextLoad == LoadPoliciesFromYaml

SpecLoad == Init /\ [][NextLoad]_vars

\* the entries that have a non-empty id and a non-empty action
Complete(e) ==
    /\ "id" \in DOMAIN e /\ e.id # "" /\ e.id # NoneAtom
    /\ "action" \in DOMAIN e /\ e.action # <<>> /\ e.action # None
\* the entry with the defaults for the fields it leaves out
WithDefaults(e) ==
    [k \in {"id", "action", "subject", "resource", "effect", "description", "level",
            "match", "priority"} |->
        IF k \in DOMAIN e THEN e[k]
        ELSE CASE k \in {"subject", "resource"} -> Star
               [] k = "effect" -> "deny"
               [] k = "level" -> "agent"
               [] k = "priority" -> 50
               [] k = "match" -> <<>>
               [] OTHER -> <<>>]
\* the complete entries of a document, in its order
RECURSIVE CompleteOf(_)
CompleteOf(es) ==
    IF es = <<>> THEN <<>>
    ELSE (IF Complete(Head(es)) THEN <<WithDefaults(Head(es))>> ELSE <<>>) \o CompleteOf(Tail(es))
\* the ids of a sequence of ids, each at its first place
RECURSIVE FirstPlaces(_)
FirstPlaces(ids) ==
    IF ids = <<>> THEN <<>>
    ELSE LET front == FirstPlaces(ButLast(ids))
             last == ids[Len(ids)]
         IN  IF \E i \in 1..Len(front) : front[i] = last THEN front ELSE Append(front, last)

\* C19: loading degrades gracefully. load_policies_from_yaml on a document with a
\* list of policies returns, without an exception, exactly the entries that have a
\* non-empty id and a non-empty action, in document order and with the absent
\* fields defaulted (subject and resource "*", effect deny, level agent, priority
\* 50, match empty), whatever entries lack an id or an action before or between
\* them; each of them is then held under its id, and the ids that were not held
\* follow the held ones in document order.
C19_LoadDegradesGracefully ==
    [][(op' = "load_policies_from_yaml" /\ req'.readable /\ "policies" \in DOMAIN req'.data) =>
         LET complete == CompleteOf(req'.data.policies)
         IN  /\ raised' = ""
             /\ ret' = complete
             /\ \A i \in 1..Len(complete) :
                   \E j \in 1..Len(policies') :
                       /\ policies'[j].id = complete[i].id
                       /\ \E k \in i..Len(complete) : policies'[j] = complete[k]
             /\ IdsOf(RepoList') = FirstPlaces(IdsOf(RepoList) \o IdsOf(complete))]_vars

\* a document of p1 with the defaults, an entry without action and the full p2
\* was loaded into the empty store: p1 and p2 are returned and held
C19_Witness ==
    /\ op = "load_policies_from_yaml" /\ raised = ""
    /\ "policies" \in DOMAIN req.data
    /\ req.data.policies = <<MinimalEntry, NoActionEntry, FullEntry>>
    /\ IdsOf(ret) = <<"p1", "p2">>
    /\ ret[1].effect = "deny" /\ ret[1].priority = 50 /\ ret[1].subject = Star
    /\ IdsOf(policies) = <<"p1", "p2">>

-----------------------------------------------------------------------------
(* SpecAdmission: what load_policies_from_yaml and add_policy let into the   *)
(* store and so into evaluation                                              *)

\* a policy with a pattern, one without the key action, one with the action ""
AdmissionPolicies ==
    {[id |-> id, action |-> PaymentAny, effect |-> "allow"] : id \in UnheldIds}
    \cup {[id |-> id, effect |-> "allow"] : id \in UnheldIds}
    \cup {[id |-> id, action |-> <<>>, effect |-> "deny"] : id \in UnheldIds}

AdmissionAddPolicy == \E policy \in AdmissionPolicies : add_policy(policy)

AdmissionLoad ==
    \E es \in SeqsUpTo(Entries, MaxPolicies) :
        load_policies_from_yaml(File(FALSE, TRUE, [policies |-> es]))

AdmissionEvaluateAll ==
    \E r \in ListingRequests : evaluate_all(r.subject, r.action, r.resource, r.attrs)

NextAdmission == AdmissionAddPolicy \/ AdmissionLoad \/ AdmissionEvaluateAll

SpecAdmission == Init /\ [][NextAdmission]_vars

\* C17: store invariant. Every policy that list() returns has a non-empty id and
\* a non-empty action pattern, after any sequence of loads and add_policy calls.
C17_StoreInvariant ==
    \A i \in 1..Len(RepoList) :
        /\ "id" \in DOMAIN RepoList[i] /\ ~Falsy(RepoList[i].id)
        /\ "action" \in DOMAIN RepoList[i] /\ ~FalsyStr(RepoList[i].action)

-----------------------------------------------------------------------------
(* SpecReload: a directory of policy files that is edited and loaded again   *)
(* into the store in use, while evaluations go on                            *)

ReloadFiles ==
    {File(FALSE, TRUE, [policies |-> <<MinimalEntry>>]),
     File(FALSE, TRUE, [policies |-> <<FullEntry>>]),
     File(FALSE, TRUE, [policies |-> <<MinimalEntry, FullEntry>>]),
     File(FALSE, TRUE, [policies |-> <<FullEntry, NoActionEntry>>]),
     File(TRUE, TRUE, [policies |-> <<FullEntry>>]),
     File(FALSE, FALSE, <<>>)}

\* the directories of up to MaxPolicies different files
Directories == SeqsUpTo(ReloadFiles, MaxPolicies)

\* the files are edited while no load is running
EditDirectory ==
    /\ load = Idle
    /\ directory' \in Directories \ {directory}
    /\ op' = "edit"
    /\ req' = NoReturn
    /\ ret' = NoReturn
    /\ raised' = ""
    /\ UNCHANGED <<policies, action_index, subject_index, resource_index, load>>

ReloadEvaluateAll ==
    evaluate_all(FinanceAgent, PaymentTransfer, None, <<[amount |-> Number(500)]>>)

NextReload ==
    \/ EditDirectory
    \/ load_begin
    \/ load_file
    \/ load_entry
    \/ load_return
    \/ ReloadEvaluateAll

SpecReload == Init /\ [][NextReload]_vars

\* the policies of a listing, as a set
SetOf(ps) == {ps[i] : i \in 1..Len(ps)}
\* the policies of the source: what loading the directory into an empty store holds
SourcePolicies(files) == SetOf(LoadAllStore(EmptyStore, files).policies)

\* C15: reload replaces the set. When load_all_policies_from_directory has
\* returned, the store holds exactly the policies of the directory as it is.
C15_ReloadReplaces ==
    op = "load_all_policies_from_directory" => SetOf(RepoList) = SourcePolicies(directory)

\* the policies an evaluation has seen, by the fields its trace keeps
Seen == {[id |-> ret.matches[i].policy, level |-> ret.matches[i].level,
          priority |-> ret.matches[i].priority, effect |-> ret.matches[i].effect] :
            i \in 1..Len(ret.matches)}
TraceOf(ps) == {[id |-> p.id, level |-> p.level, priority |-> p.priority, effect |-> p.effect] :
                    p \in ps}

\* C14: atomic snapshot under hot-reload. An evaluation that runs while a load
\* of the directory is under way sees the complete set of policies held before the
\* load or the complete set held after it: the one the load leaves, or the one of
\* the directory alone.
C14_AtomicSnapshot ==
    (op = "evaluate_all" /\ load # Idle) =>
        Seen \in {TraceOf(SetOf(load.start)),
                  TraceOf(SetOf(LoadAllStore(Store,
                      (IF load.pc = "entry"
                       THEN <<File(FALSE, TRUE, [policies |-> load.entries])>> ELSE <<>>)
                      \o load.files).policies)),
                  TraceOf(SourcePolicies(directory))}

-----------------------------------------------------------------------------
(* SpecPayment: the two agent-level payment policies of the demo, and        *)
(* payments of every subject around the threshold                            *)

P1 == Policy("P1", "agent", 10, PaymentTransfer, Star, Star, "allow", [amount_max |-> 999])
P2 == Policy("P2", "agent", 10, PaymentTransfer, Star, Star, "deny", [amount_min |-> 1000])

PaymentAddPolicy ==
    \E policy \in {P1, P2} : policy.id \notin HeldIds /\ add_policy(policy)

PaymentAmounts == {-1, 0, 50, 500, 750, 998, 999, 1000, 1001, 5000}
PaymentSubjects == {FinanceAgent, <<"h", "r">>, <<>>, None}
PaymentRequests ==
    {Request(subject, PaymentTransfer, None, <<[amount |-> Number(a)]>>) :
        subject \in PaymentSubjects, a \in PaymentAmounts}

PaymentEvaluateAll ==
    \E r \in PaymentRequests : evaluate_all(r.subject, r.action, r.resource, r.attrs)

PaymentEvaluate ==
    \E r \in PaymentRequests : evaluate(r.subject, r.action, r.resource, r.attrs)

NextPayment == PaymentAddPolicy \/ PaymentEvaluateAll \/ PaymentEvaluate

SpecPayment == Init /\ [][NextPayment]_vars

\* C20: payment threshold scenario. With exactly P1 and P2 held, a
\* payment.transfer of the integer amount a is, for every subject, allowed via P1
\* when a <= 999 and denied via P2 when a >= 1000.
C20_PaymentThreshold ==
    (Evaluated /\ SetOf(policies) = {P1, P2} /\ req \in PaymentRequests) =>
        LET a == req.attrs[1].amount.n
        IN  /\ raised = ""
            /\ a <= 999 =>
                  (Final.allow /\ Final.effect = "allow" /\ Final.matched_policy = "P1")
            /\ a >= 1000 =>
                  (~Final.allow /\ Final.effect = "deny" /\ Final.matched_policy = "P2")

\* 1000 is denied via P2, with P2 held before P1
C20_Witness ==
    /\ op = "evaluate" /\ raised = ""
    /\ IdsOf(policies) = <<"P2", "P1">>
    /\ req.attrs = <<[amount |-> Number(1000)]>>
    /\ ~ret.allow /\ ret.matched_policy = "P2"

-----------------------------------------------------------------------------
(* SpecDefaults: requests with and without a resource, with and without      *)
(* attrs, on policies of several resource patterns                           *)

PaymentSystem == <<"s", "1">>
SystemAny == <<"s", "*">>

DefaultsAddPolicy ==
    \E id \in FreshIds, resource \in {Star, PaymentSystem, SystemAny},
       effect \in {"allow", "deny"}, match \in Matchings :
        add_policy(Policy(id, "agent", 10, PaymentAny, Star, resource, effect, match))

\* no attrs, an empty mapping, an amount
DefaultsAttrs == {<<>>, << <<>> >>, <<[amount |-> Number(500)]>>}

DefaultsRequests ==
    {Request(FinanceAgent, PaymentTransfer, resource, attrs) :
        resource \in {None, Star, PaymentSystem}, attrs \in DefaultsAttrs}

DefaultsEvaluate ==
    \E r \in DefaultsRequests : evaluate(r.subject, r.action, r.resource, r.attrs)

NextDefaults == DefaultsAddPolicy \/ DefaultsEvaluate

SpecDefaults == Init /\ [][NextDefaults]_vars

\* C25: absent optional inputs are defaulted. An evaluate without a resource and
\* an evaluate with the resource "*", and an evaluate without attrs and one with
\* an empty attrs mapping, called one after the other on the same store with the
\* other arguments equal, return the same decision.
C25_AbsentInputsDefaulted ==
    [][(/\ op = "evaluate" /\ op' = "evaluate" /\ policies' = policies
        /\ req'.subject = req.subject /\ req'.action = req.action
        /\ \/ req.resource = None /\ req'.resource = Star /\ req'.attrs = req.attrs
           \/ req.attrs = <<>> /\ req'.attrs = << <<>> >> /\ req'.resource = req.resource)
       => (raised = "" /\ raised' = "" /\ ret' = ret)]_vars

\* an evaluate without resource and without attrs: p1, for the resources s*, does
\* not match, and p2, for every resource, allows
C25_Witness ==
    /\ op = "evaluate" /\ raised = "" /\ Len(policies) = 2
    /\ req.resource = None /\ req.attrs = <<>>
    /\ policies[1].resource = SystemAny /\ policies[1].effect = "deny"
    /\ policies[2].resource = Star /\ policies[2].effect = "allow"
    /\ ret.allow /\ ret.matched_policy = "p2"

-----------------------------------------------------------------------------
(* SpecAttrs: attrs that carry the keys subject, action or resource          *)

AttrsAddPolicy ==
    \E id \in FreshIds, action \in {PaymentAny, DataExport}, effect \in {"allow", "deny"} :
        add_policy(Policy(id, "agent", 10, action, Star, Star, effect, <<>>))

ReservedAttrs ==
    {<<>>, <<[amount |-> Number(500)]>>, <<[action |-> PaymentTransfer]>>,
     <<[subject |-> FinanceAgent]>>, <<[resource |-> PaymentSystem]>>}

AttrsRequests ==
    {Request(FinanceAgent, action, Star, attrs) :
        action \in {PaymentTransfer, DataExport}, attrs \in ReservedAttrs}

AttrsEvaluate ==
    \E r \in AttrsRequests : evaluate(r.subject, r.action, r.resource, r.attrs)

NextAttrs == AttrsAddPolicy \/ AttrsEvaluate

SpecAttrs == Init /\ [][NextAttrs]_vars

\* attrs without its entries named subject, action, resource
Unreserved(attrs) ==
    IF attrs = <<>> THEN <<>>
    ELSE <<[k \in DOMAIN attrs[1] \ {"subject", "action", "resource"} |-> attrs[1][k]]>>

\* C26: attributes cannot redirect the request. The decision evaluate returned is
\* the one it returns for the same subject, action and resource with the attrs
\* entries named subject, action and resource left out, and a stored policy
\* matches exactly when its patterns match the subject, action and resource that
\* were passed.
C26_AttrsCannotRedirect ==
    (op = "evaluate" /\ raised = "") =>
        /\ ret = EvaluateAllValue(policies, req.subject, req.action, req.resource,
                                  Unreserved(req.attrs)).final
        /\ \A i \in 1..Len(policies) :
              i \in Matching <=>
                  /\ MatchesPattern(policies[i].action, req.action) = "True"
                  /\ MatchesPattern(policies[i].subject, req.subject) = "True"
                  /\ MatchesPattern(policies[i].resource, OrStar(req.resource)) = "True"

-----------------------------------------------------------------------------
(* SpecOverride: the agent-level payment policies beside the domain-level    *)
(* approval policy for the finance agents                                    *)

P3 == Policy("P3", "domain", 20, PaymentTransfer, FinanceAny, Star, "require_approval",
             [amount_min |-> 10000])

OverrideAddPolicy ==
    \E policy \in {P1, P2, P3} : policy.id \notin HeldIds /\ add_policy(policy)

OverrideAmounts == {500, 999, 1000, 9999, 10000, 15000}
OverrideRequests ==
    {Request(subject, PaymentTransfer, None, <<[amount |-> Number(a)]>>) :
        subject \in {FinanceAgent, <<"h", "r">>}, a \in OverrideAmounts}

OverrideEvaluateAll ==
    \E r \in OverrideRequests : evaluate_all(r.subject, r.action, r.resource, r.attrs)

OverrideEvaluate ==
    \E r \in OverrideRequests : evaluate(r.subject, r.action, r.resource, r.attrs)

NextOverride == OverrideAddPolicy \/ OverrideEvaluateAll \/ OverrideEvaluate

SpecOverride == Init /\ [][NextOverride]_vars

Strongest ==
    {i \in Matching \ Unrecognized :
        \A j \in Matching \ Unrecognized : ~KeyLess(policies[j], policies[i])}

\* C23: higher levels override lower levels. When a matching domain- or
\* enterprise-level policy and a matching agent-level policy assert different
\* effects, the final effect is the one of the matching policy that comes first by
\* level, then priority.
C23_HigherLevelOverrides ==
    (/\ Evaluated /\ raised = ""
     /\ \E i, j \in Matching \ Unrecognized :
           /\ policies[i].level \in {"domain", "enterprise"}
           /\ policies[j].level = "agent"
           /\ policies[i].effect # policies[j].effect) =>
        \E i \in Strongest : Final.effect = policies[i].effect

-----------------------------------------------------------------------------
(* SpecMock: the five policies of the demo's MockRepository, which has only  *)
(* list() and size()                                                         *)

External == <<"x">>
Internal == <<"n">>
Pii == <<"p", "i", "i">>
Public == <<"p", "u", "b">>
PaymentAgent == <<"y", "1">>
PaymentAgents == <<"y", "*">>
FinanceManager == <<"f", "m">>

MockPolicies ==
    <<Policy("enterprise-pii-protection", "enterprise", 1, DataExport, Star, External, "deny",
             [data_classification |-> Pii]),
      Policy("domain-finance-elevated", "domain", 15, PaymentTransfer, FinanceAny, Star, "allow",
             [amount_max |-> 9999]),
      Policy("domain-finance-approval", "domain", 20, PaymentTransfer, FinanceAny, Star,
             "require_approval", [amount_min |-> 10000]),
      Policy("agent-allow-small", "agent", 10, PaymentTransfer, Star, Star, "allow",
             [amount_max |-> 999]),
      Policy("agent-deny-large", "agent", 10, PaymentTransfer, PaymentAgents, Star, "deny",
             [amount_min |-> 1000])>>

\* MockRepository(): the list is there from construction
InitMock ==
    /\ policies = MockPolicies
    /\ action_index = {}
    /\ subject_index = {}
    /\ resource_index = {}
    /\ op = "init"
    /\ req = NoReturn
    /\ ret = NoReturn
    /\ raised = ""
    /\ directory = <<>>
    /\ load = Idle

MockAmounts == {-1, 0, 1, 500, 998, 999, 1000, 1001, 5000, 9998, 9999, 10000, 10001, 15000}
MockPayments ==
    {Request(subject, PaymentTransfer, Star, <<[amount |-> Number(a)]>>) :
        subject \in {PaymentAgent, FinanceAgent, FinanceManager}, a \in MockAmounts}
MockExports ==
    {Request(subject, DataExport, resource, <<[data_classification |-> c]>>) :
        subject \in {PaymentAgent, FinanceAgent}, resource \in {External, Internal},
        c \in {Pii, Public}}
    \cup {Request(FinanceAgent, DataExport, External, <<>>)}

MockEvaluate ==
    \E r \in MockPayments \cup MockExports :
        evaluate(r.subject, r.action, r.resource, r.attrs)

MockEvaluateAll ==
    \E r \in MockPayments \cup MockExports :
        evaluate_all(r.subject, r.action, r.resource, r.attrs)

NextMock == MockEvaluate \/ MockEvaluateAll \/ list \/ size

SpecMock == InitMock /\ [][NextMock]_vars

\* C22: scoped hierarchy scenario. On the five policies, a payment.transfer on
\* the resource "*" of the integer amount a is denied via agent-deny-large for the
\* payment agent when a >= 1000, allowed via domain-finance-elevated for the
\* finance agent when a <= 9999, and gets require_approval via
\* domain-finance-approval for the finance agent when a >= 10000.
C22_ScopedHierarchy ==
    (Evaluated /\ req \in MockPayments) =>
        LET a == req.attrs[1].amount.n
            Is(effect, id) == Final.effect = effect /\ Final.matched_policy = id
        IN  /\ raised = ""
            /\ (req.subject = PaymentAgent /\ a >= 1000) => Is("deny", "agent-deny-large")
            /\ (req.subject = FinanceAgent /\ a <= 9999) =>
                  (Is("allow", "domain-finance-elevated") /\ Final.allow)
            /\ (req.subject = FinanceAgent /\ a >= 10000) =>
                  Is("require_approval", "domain-finance-approval")

\* the finance agent's 500 matches both allow policies; the domain-level one is named
C22_Witness ==
    /\ op = "evaluate_all" /\ raised = ""
    /\ req.subject = FinanceAgent /\ req.attrs = <<[amount |-> Number(500)]>>
    /\ ret.matches[2].matches /\ ret.matches[4].matches
    /\ ret.final.matched_policy = "domain-finance-elevated"

\* C24: a match condition on data_classification is enforced.
\* enterprise-pii-protection matches only requests whose data_classification is
\* "pii"; a data.export to the resource external with data_classification
\* "public" is not matched by it and gets the decision of default-deny.
C24_ClassificationEnforced ==
    (op = "evaluate_all" /\ req \in MockExports) =>
        /\ raised = ""
        /\ ret.matches[1].matches =>
              (req.attrs # <<>> /\ req.attrs[1].data_classification = Pii)
        /\ (req.resource = External /\ req.attrs # <<>>
             /\ req.attrs[1].data_classification = Public) =>
                (~ret.matches[1].matches /\ DefaultDeny(ret.final))

-----------------------------------------------------------------------------
(* ADKAgent: the payment tool and the message pipeline.  In an action name   *)
(* the element "p" stands for the word payment.                              *)

PaymentWire == <<"p", "w">>

\* action_map.get(type, "payment.transfer")
ActionOfType(type) == IF type = "wire" THEN PaymentWire ELSE PaymentTransfer

\* `"payment" in action`
MentionsPayment(action) == \E i \in 1..Len(action) : action[i] = "p"

\* the arguments of the evaluate_all call of _process_payment
PaymentCheck(agent_id, amount, recipient, type) ==
    Request(agent_id, ActionOfType(type), PaymentSystem,
            <<[amount |-> amount, recipient |-> recipient]>>)

\* _process_payment approving whatever is not denied
ProcessPaymentValue_ApprovesUnlessDeny(agent_id, amount, recipient, type) ==
    LET c == PaymentCheck(agent_id, amount, recipient, type)
        eval_all == EvaluateAllValue(RepoList, c.subject, c.action, c.resource, c.attrs)
        final == eval_all.final
    IN  IF final.effect # "deny"
        THEN [status |-> "approved", transaction_id |-> "TXN",
              policy |-> final.matched_policy, reason |-> final.reason,
              trace |-> eval_all.matches]
        ELSE [status |-> "denied",
              policy |-> final.matched_policy, reason |-> final.reason,
              trace |-> eval_all.matches]

\* the dict _process_payment returns; the message is left out
ProcessPaymentValue(agent_id, amount, recipient, type) ==
    LET c == PaymentCheck(agent_id, amount, recipient, type)
        eval_all == EvaluateAllValue(RepoList, c.subject, c.action, c.resource, c.attrs)
        final == eval_all.final
    IN  IF final.allow
        THEN [status |-> "approved", transaction_id |-> "TXN",
              policy |-> final.matched_policy, reason |-> final.reason,
              trace |-> eval_all.matches]
        ELSE [status |-> "denied",
              policy |-> final.matched_policy, reason |-> final.reason,
              trace |-> eval_all.matches]

\* the exception that leaves _process_payment, "" when it returns
ProcessPaymentError(agent_id, amount, recipient, type) ==
    LET c == PaymentCheck(agent_id, amount, recipient, type)
    IN  FirstError(RepoList, Context(c.subject, c.action, c.resource, c.attrs))

process_payment(agent_id, amount, recipient, type) ==
    LET err == ProcessPaymentError(agent_id, amount, recipient, type)
    IN  /\ op' = "process_payment"
        /\ req' = [agent_id |-> agent_id, amount |-> amount, recipient |-> recipient,
                   type |-> type]
        /\ raised' = err
        /\ ret' = IF err = "" THEN ProcessPaymentValue(agent_id, amount, recipient, type)
                  ELSE NoReturn
        /\ UNCHANGED <<policies, action_index, subject_index, resource_index, directory, load>>

\* process_message on the intent that the LLM client extracted: the policy
\* decision and the tool result handed to generate_response
process_message(agent_id, intent) ==
    LET action == intent.action
        params == intent.parameters
        err == FirstError(RepoList, Context(agent_id, action, Star, <<params>>))
        final == EvaluateAllValue(RepoList, agent_id, action, Star, <<params>>).final
        amount == Get(params, "amount", Number(0))
        recipient == Get(params, "recipient", Text(<<"u">>))
        ttype == Get(params, "type", "transfer")
        runs == final.allow /\ action # None /\ action # <<>> /\ MentionsPayment(action)
        err2 == IF err = "" /\ runs
                THEN ProcessPaymentError(agent_id, amount, recipient, ttype) ELSE ""
    IN  /\ op' = "process_message"
        /\ req' = [agent_id |-> agent_id, intent |-> intent]
        /\ raised' = IF err # "" THEN err ELSE err2
        /\ ret' = IF err # "" \/ err2 # "" THEN NoReturn
                  ELSE [policy_decision |-> final,
                        result |-> IF runs
                                   THEN <<ProcessPaymentValue(agent_id, amount, recipient, ttype)>>
                                   ELSE <<>>]
        /\ UNCHANGED <<policies, action_index, subject_index, resource_index, directory, load>>

-----------------------------------------------------------------------------
(* SpecAgent: an agent over the payment policies and a deny for the          *)
(* resource of the payment tool                                              *)

P4 == Policy("P4", "agent", 10, PaymentAny, Star, PaymentSystem, "deny", [amount_min |-> 5000])
WireAllow == Policy("P5", "agent", 10, PaymentWire, Star, Star, "allow", <<>>)
ExportAllow == Policy("P6", "agent", 10, DataExport, Star, Star, "allow", <<>>)

AgentAddPolicy ==
    \E policy \in {P1, P3, P4, WireAllow, ExportAllow} :
        /\ Len(policies) < MaxPolicies + 1
        /\ policy.id \notin HeldIds
        /\ add_policy(policy)

AgentAmounts == {Number(500), Number(5000), Number(15000)}
Intents ==
    {[action |-> action, parameters |-> params] :
        action \in {PaymentTransfer, PaymentWire, DataExport},
        params \in {<<>>} \cup {[amount |-> a] : a \in AgentAmounts}
                  \cup {[amount |-> a, type |-> "wire"] : a \in AgentAmounts}}

AgentProcessMessage == \E intent \in Intents : process_message(FinanceAgent, intent)

AgentProcessPayment ==
    \E amount \in AgentAmounts, type \in {"transfer", "wire", "payment"} :
        process_payment(FinanceAgent, amount, Text(<<"u">>), type)

NextAgent == AgentAddPolicy \/ AgentProcessMessage \/ AgentProcessPayment

SpecAgent == Init /\ [][NextAgent]_vars

\* the decision of _process_payment's own evaluation for the call in req
OwnDecision ==
    LET c == PaymentCheck(req.agent_id, req.amount, req.recipient, req.type)
    IN  EvaluateAllValue(policies, c.subject, c.action, c.resource, c.attrs).final
Approved(result) == result.status = "approved" /\ "transaction_id" \in DOMAIN result
Refused(result) == result.status = "denied" /\ "transaction_id" \notin DOMAIN result

\* C28: a payment is executed only when policy allows it. process_message
\* invokes the payment tool only if the decision for the intent has allow true;
\* _process_payment returns status "approved" with a transaction_id only if the
\* policy it reports allows, and status "denied" without a transaction_id on a
\* deny and on a require_approval.
C28_PaymentOnlyWhenAllowed ==
    /\ (op = "process_message" /\ raised = "") =>
          /\ ret.result # <<>> => ret.policy_decision.allow
          /\ ret.policy_decision.effect \in {"deny", "require_approval"} => ret.result = <<>>
          /\ ret.result # <<>> => (Approved(ret.result[1]) \/ Refused(ret.result[1]))
          /\ (ret.result # <<>> /\ Approved(ret.result[1])) =>
                \E i \in 1..Len(policies) :
                    /\ policies[i].id = ret.result[1].policy
                    /\ policies[i].effect = "allow"
    /\ (op = "process_payment" /\ raised = "") =>
          /\ Approved(ret) \/ Refused(ret)
          /\ Approved(ret) <=> OwnDecision.allow
          /\ OwnDecision.effect \in {"deny", "require_approval"} => Refused(ret)
          /\ ret.policy = OwnDecision.matched_policy

\* the message's decision allowed a payment of 5000 by wire, the tool ran, and its
\* own evaluation on the resource of the payment system denied it by P4
C28_Witness ==
    /\ op = "process_message" /\ raised = ""
    /\ ret.policy_decision.allow
    /\ ret.result # <<>>
    /\ Refused(ret.result[1]) /\ ret.result[1].policy = "P4"

====
